---- MODULE Spec2Model ----
(***************************************************************************)
(* Asynchronous itinerary jobs: a Cloudflare Worker that enqueues a job in *)
(* a KV namespace (JOBS_KV), creates a Firestore document for it, and      *)
(* processes queued jobs in sweeps (processPendingJobs) that call an LLM,  *)
(* validate the answer with a Zod schema and write the outcome back.       *)
(*                                                                         *)
(* Every `await` of the source is a point where other sweeps, the pending  *)
(* document creations and the clock may interleave, so every action below  *)
(* covers the code from one await's completion up to the next await.       *)
(*                                                                         *)
(* Timestamps are milliseconds since the epoch (Date.now()); the ISO-8601  *)
(* strings of the source (toISOString / new Date(s).getTime()) carry       *)
(* exactly that millisecond value.                                         *)
(***************************************************************************)
EXTENDS Integers, Sequences, FiniteSets, TLC

\* ---------------------------------------------------------------- bounds
\* submissions accepted in a run
MaxJobs == 1
\* processPendingJobs invocations that may run at the same time
MaxSweeps == 2
\* the clock advances MaxTicks times, by TickMs each time: with 600000 a lock
\* is exactly at the stale threshold after one tick and beyond it after two
MaxTicks == 2
TickMs == 600000
\* the retry counts fetchWithRetry is called with: 0..MaxRetries
MaxRetries == 3

\* ------------------------------------------------------- program constants
StaleLockMs == 600000
BaseDelay == 500
Factor == 2

JobIds == 1..MaxJobs
SweepIds == 1..MaxSweeps

\* ------------------------------------------------------------ JSON values
\* A parsed JSON value carries its JavaScript type, as typeof / Array.isArray
\* would report it.
Str(s) == [t |-> "string", v |-> s]
Num(n) == [t |-> "number", v |-> n]
\* n + 1/2, a number that is not an integer
Frac(n) == [t |-> "number", v |-> n, half |-> TRUE]
Arr(s) == [t |-> "array", v |-> s]
Obj(f) == [t |-> "object", v |-> f]
JsonNull == [t |-> "null"]

IsInteger(x) == x.t = "number" /\ "half" \notin DOMAIN x

RECURSIVE Flatten(_)
Flatten(ss) == IF ss = <<>> THEN <<>> ELSE Head(ss) \o Flatten(Tail(ss))

RECURSIVE Join(_, _)
\* Array.prototype.join
Join(ss, sep) ==
  IF ss = <<>> THEN ""
  ELSE IF Len(ss) = 1 THEN ss[1]
  ELSE ss[1] \o sep \o Join(Tail(ss), sep)

\* String(i) of an array index
IdxStr(i) == CASE i = 0 -> "0" [] i = 1 -> "1" [] i = 2 -> "2" [] OTHER -> "3"

\* --------------------------------------------------------------- Zod schema
\* An issue is [path, message]; path is the sequence of its path segments.
StringIssues(x, path) ==
  IF x.t = "string" THEN <<>>
  ELSE <<[path |-> path, message |-> "Expected string, received " \o x.t]>>

FieldIssues(o, f, path) ==
  IF f \notin DOMAIN o THEN <<[path |-> path \o <<f>>, message |-> "Required"]>>
  ELSE StringIssues(o[f], path \o <<f>>)

ActivityIssues(a, path) ==
  IF a.t # "object"
    THEN <<[path |-> path, message |-> "Expected object, received " \o a.t]>>
    ELSE FieldIssues(a.v, "time", path) \o FieldIssues(a.v, "description", path)
           \o FieldIssues(a.v, "location", path)

DayIssues(x, path) ==
  IF x.t # "number"
    THEN <<[path |-> path, message |-> "Expected number, received " \o x.t]>>
  ELSE IF ~IsInteger(x)
    THEN <<[path |-> path, message |-> "Expected integer, received float"]>>
  ELSE IF x.v < 1
    THEN <<[path |-> path, message |-> "Number must be greater than or equal to 1"]>>
  ELSE <<>>

ActivitiesIssues(x, path) ==
  IF x.t # "array"
    THEN <<[path |-> path, message |-> "Expected array, received " \o x.t]>>
  ELSE IF Len(x.v) < 1
    THEN <<[path |-> path, message |-> "Array must contain at least 1 element(s)"]>>
  ELSE Flatten([i \in 1..Len(x.v) |-> ActivityIssues(x.v[i], path \o <<IdxStr(i - 1)>>)])

DayItineraryIssues(d, path) ==
  IF d.t # "object"
    THEN <<[path |-> path, message |-> "Expected object, received " \o d.t]>>
    ELSE (IF "day" \in DOMAIN d.v THEN DayIssues(d.v.day, path \o <<"day">>)
          ELSE <<[path |-> path \o <<"day">>, message |-> "Required"]>>)
      \o FieldIssues(d.v, "theme", path)
      \o (IF "activities" \in DOMAIN d.v
            THEN ActivitiesIssues(d.v.activities, path \o <<"activities">>)
            ELSE <<[path |-> path \o <<"activities">>, message |-> "Required"]>>)

ItineraryIssues(x) ==
  IF x.t # "array"
    THEN <<[path |-> <<>>, message |-> "Expected array, received " \o x.t]>>
  ELSE IF Len(x.v) < 1
    THEN <<[path |-> <<>>, message |-> "Array must contain at least 1 element(s)"]>>
  ELSE Flatten([i \in 1..Len(x.v) |-> DayItineraryIssues(x.v[i], <<IdxStr(i - 1)>>)])

\* ItinerarySchema accepts x exactly when parsing raises no issue.
ItinerarySchemaAccepts(x) == ItineraryIssues(x) = <<>>

\* z.object strips the keys the schema does not name.
Keep(o, keys) == [f \in (DOMAIN o) \cap keys |-> o[f]]

StripActivity(a) == Obj(Keep(a.v, {"time", "description", "location"}))

StripDay(d) ==
  Obj([f \in {"day", "theme", "activities"} |->
        IF f = "activities"
          THEN Arr([i \in 1..Len(d.v.activities.v) |-> StripActivity(d.v.activities.v[i])])
          ELSE d.v[f]])

\* The value ItinerarySchema.parse returns for an accepted x.
ItineraryOutput(x) == Arr([i \in 1..Len(x.v) |-> StripDay(x.v[i])])

\* 'Validation error: ' + err.errors.map(e => `${e.path.join('.')}: ${e.message}`).join('; ')
ZodMessage(x) ==
  LET issues == ItineraryIssues(x)
  IN "Validation error: "
       \o Join([i \in 1..Len(issues) |->
                  Join(issues[i].path, ".") \o ": " \o issues[i].message], "; ")

\* a parse that checks nothing and hands the raw value on
SchemaParseUnchecked(raw) == [ok |-> TRUE, value |-> raw]

\* ItinerarySchema.parse(rawItinerary): the parsed value, or a ZodError.
SchemaParse(raw) ==
  IF ItinerarySchemaAccepts(raw)
    THEN [ok |-> TRUE, value |-> ItineraryOutput(raw)]
    ELSE [ok |-> FALSE, message |-> ZodMessage(raw)]

\* ----------------------------------------------- what the LLM call can yield
ActivityA == Obj([time |-> Str("09:00"), description |-> Str("Senso-ji"), location |-> Str("Asakusa")])

\* a valid itinerary whose day-plan carries a key the schema does not name
PayloadValid ==
  Arr(<<Obj([day |-> Num(1), theme |-> Str("Old town"), activities |-> Arr(<<ActivityA>>),
             note |-> Str("extra")])>>)

\* a day-plan with day = 0
PayloadDay0 ==
  Arr(<<Obj([day |-> Num(0), theme |-> Str("Old town"), activities |-> Arr(<<ActivityA>>)])>>)

Payloads == {PayloadValid, PayloadDay0}

\* messages of the errors generateItinerary throws
GenErrors == {"LLM request aborted by timeout"}

\* what createItineraryDoc / saveItinerary report when Firestore (or the token
\* endpoint) answers with a non-success status
SaveErrorText == "saveItinerary failed: 503 unavailable"
\* what a rejected JOBS_KV call reports
KvErrorText == "KV request failed"

\* inputs of the submissions
Destinations == {"Tokyo, Japan"}
Durations == {5}

\* ------------------------------------------------------------------ state
VARIABLES
  clock,     \* Date.now()
  nextJob,   \* the job ids 1..nextJob-1 were handed out (crypto.randomUUID is fresh)
  kv,        \* JOBS_KV: job id -> the record stored under it (the parsed JSON text)
  doc,       \* Firestore collection itineraries: job id -> the document's fields
  creating,  \* createItineraryDoc calls in flight: job id -> their arguments
  sweep,     \* the processPendingJobs invocations: their position and locals
  writer,    \* history: which sweep's save last wrote each part of a document
  retry,     \* one fetchWithRetry call: its position, locals and what it was answered
  call,      \* one call of ItinerarySchema.parse or extractFirstJsonArray: input and outcome
  response   \* the last POST exchange: the request body and the response sent

vars == <<clock, nextJob, kv, doc, creating, sweep, writer, retry, call, response>>

\* ------------------------------------------------------------- Firestore
NullValue == [nullValue |-> "null"]
StringValue(s) == [stringValue |-> s]
TimestampValue(t) == [timestampValue |-> t]
\* integerValue: String(durationDays)
IntegerValue(n) == [integerValue |-> [decimal |-> n]]
\* JSON.stringify(itinerary): the JSON text of the value
Stringify(x) == [json |-> x]

\* a PATCH whose update mask is ignored: the document becomes the fields sent
PatchReplaces(store, id, fields, mask) ==
  [k \in (DOMAIN store) \cup {id} |-> IF k = id THEN fields ELSE store[k]]

\* PATCH without updateMask: the document becomes exactly the fields sent.
\* PATCH with updateMask: the masked fields are replaced, the others kept; a
\* document that does not exist yet is created with the masked fields alone.
Patch(store, id, fields, mask) ==
  LET old == IF id \in DOMAIN store THEN store[id] ELSE [f \in {} |-> NullValue]
      new == [f \in (DOMAIN old) \cup mask |-> IF f \in mask THEN fields[f] ELSE old[f]]
  IN [k \in (DOMAIN store) \cup {id} |-> IF k = id THEN new ELSE store[k]]

Overwrite(store, id, fields) ==
  [k \in (DOMAIN store) \cup {id} |-> IF k = id THEN fields ELSE store[k]]

\* the body createItineraryDoc sends
InitialDoc(p) ==
  [status       |-> StringValue("processing"),
   destination  |-> StringValue(p.destination),
   durationDays |-> IntegerValue(p.durationDays),
   createdAt    |-> TimestampValue(p.createdAt),
   completedAt  |-> NullValue,
   itinerary    |-> NullValue,
   error        |-> NullValue]

\* `undefined` for an argument saveItinerary was not given
Undefined == [t |-> "undefined"]

\* the update mask of saveItinerary
SaveMask(a) ==
  {"status", "updatedAt", "completedAt", "error"}
    \cup (IF a.itinerary # Undefined THEN {"itinerary"} ELSE {})

\* new Date(ms).toISOString(): a string, never empty
Iso(ms) == [t |-> "string", ms |-> ms]

\* JavaScript truthiness of an argument that is null or a string
Truthy(x) == x # JsonNull /\ x # Undefined /\ x # Str("")

\* the fields saveItinerary sends; completedAt and error go through a
\* truthiness test
SaveFields(a) ==
  [f \in SaveMask(a) |->
     CASE f = "status"      -> StringValue(a.status)
       [] f = "updatedAt"   -> TimestampValue(a.updatedAt.ms)
       [] f = "completedAt" -> IF Truthy(a.completedAt)
                                 THEN TimestampValue(a.completedAt.ms) ELSE NullValue
       [] f = "error"       -> IF Truthy(a.error) THEN StringValue(a.error.v) ELSE NullValue
       [] OTHER             -> StringValue(Stringify(a.itinerary))]

\* the documents after a successful saveItinerary(env, id, a)
SaveItinerary(store, id, a) == Patch(store, id, SaveFields(a), SaveMask(a))

\* the arguments of the two saveItinerary calls of processPendingJobs
CompletedArgs(itinerary, nowTs) ==
  [status |-> "completed", itinerary |-> itinerary, updatedAt |-> Iso(nowTs),
   completedAt |-> Iso(nowTs), error |-> JsonNull]

FailedArgs(message, nowTs) ==
  [status |-> "failed", itinerary |-> Undefined, updatedAt |-> Iso(nowTs),
   completedAt |-> JsonNull, error |-> Str(message)]

\* --------------------------------------------------------------- JOBS_KV
KvPut(store, id, rec) == [k \in (DOMAIN store) \cup {id} |-> IF k = id THEN rec ELSE store[k]]
KvDelete(store, id) == [k \in (DOMAIN store) \ {id} |-> store[k]]

\* JSON.stringify drops nothing of a job record; `delete job.error` removes the key
Without(rec, f) == [g \in (DOMAIN rec) \ {f} |-> rec[g]]
With(rec, f, x) == [g \in (DOMAIN rec) \cup {f} |-> IF g = f THEN x ELSE rec[g]]

\* the orders in which JOBS_KV.list() may enumerate the keys
RECURSIVE Orders(_)
Orders(S) ==
  IF S = {} THEN {<<>>}
  ELSE UNION {{<<x>> \o o : o \in Orders(S \ {x})} : x \in S}

\* ----------------------------------------------------------------- sweeps
NoJob == [status |-> "none"]

IdleSweep ==
  [pc |-> "idle", keys |-> <<>>, now |-> 0, jobId |-> 0, job |-> NoJob,
   itinerary |-> JsonNull, message |-> "", nowTs |-> 0]

\* the sweep's promise rejected: an error left processPendingJobs
RejectedSweep == [IdleSweep EXCEPT !.pc = "rejected"]

Free(s) == sweep[s].pc \in {"idle", "rejected"}

\* the slot a new invocation takes
FreeSlot == CHOOSE s \in SweepIds : Free(s) /\ \A r \in SweepIds : Free(r) => s <= r

\* a stale-lock test with the wrong threshold
IsStaleDoubled(job, now) ==
  job.status = "in-progress" /\ now - job.lockedAt > 2 * StaleLockMs

\* the stale-lock test of the sweep (line 109); `now` is the sweep's
\* Date.now() of line 101
IsStale(job, now) ==
  job.status = "in-progress" /\ now - job.lockedAt > StaleLockMs

\* ---------------------------------------------------------- fetchWithRetry
\* what fetch(url, options) can do: answer with an HTTP status, reject with a
\* network error, or reject with an AbortError once the signal fired
Http(status) == [kind |-> "http", status |-> status]
NetworkError == [kind |-> "network"]
AbortError == [kind |-> "abort"]
Responses == {Http(200), Http(404), Http(429), Http(503), NetworkError, AbortError}

\* String(res.status)
StatusStr(status) ==
  CASE status = 200 -> "200" [] status = 404 -> "404" [] status = 429 -> "429" [] OTHER -> "503"

\* res.ok
Ok(resp) == resp.kind = "http" /\ resp.status >= 200 /\ resp.status <= 299

\* line 25
Retryable(resp) == resp.status = 429 \/ resp.status >= 500

\* a give-up test that is off by one
OutOfRetriesLate(attempt, retries) == attempt > retries

\* the test `attempt >= retries` of lines 26 and 33
OutOfRetries(attempt, retries) == attempt >= retries

NoCall == [pc |-> "none", retries |-> 0, attempt |-> 0, history |-> <<>>, delays |-> <<>>,
           error |-> "", aborted |-> FALSE]

\* fetchWithRetry(url, options, {retries, baseDelay}) right after its first
\* fetch was issued
Call(retries) == [NoCall EXCEPT !.pc = "fetch", !.retries = retries]

\* the call ends by throwing
Threw(r, message) == [r EXCEPT !.pc = "threw", !.error = message]

\* lines 36-39: the backoff delay (without the jitter) is computed and the
\* sleep starts
Backoff(r) ==
  [r EXCEPT !.pc = "sleep", !.delays = Append(r.delays, BaseDelay * Factor ^ r.attempt)]

\* a loop that takes the AbortError for a network error and retries it
AnsweredAbortRetried(r0, resp) ==
  LET r == [r0 EXCEPT !.history = Append(r0.history, resp)]
  IN IF resp.kind \in {"abort", "network"}
       THEN IF OutOfRetries(r.attempt, r.retries) THEN Threw(r, "fetch failed") ELSE Backoff(r)
     ELSE IF Ok(resp) THEN [r EXCEPT !.pc = "returned"]
     ELSE IF OutOfRetries(r.attempt, r.retries)
       THEN Threw(r, "LLM request failed: HTTP " \o StatusStr(resp.status))
     ELSE Backoff(r)

\* the state of the call when its fetch is answered with resp (lines 21-39)
Answered(r0, resp) ==
  LET r == [r0 EXCEPT !.history = Append(r0.history, resp)]
  IN IF resp.kind = "abort" THEN Threw(r, "LLM request aborted by timeout")
     ELSE IF resp.kind = "network"
       THEN IF OutOfRetries(r.attempt, r.retries) THEN Threw(r, "fetch failed") ELSE Backoff(r)
     ELSE IF Ok(resp) THEN [r EXCEPT !.pc = "returned"]
     ELSE IF ~Retryable(resp) \/ OutOfRetries(r.attempt, r.retries)
       \* the Error thrown at line 28 is caught at line 30
       THEN IF OutOfRetries(r.attempt, r.retries)
              THEN Threw(r, "LLM request failed: HTTP " \o StatusStr(resp.status))
              ELSE Backoff(r)
     ELSE Backoff(r)

\* the timer of runWithTimeout fires while the call is running:
\* controller.abort() sets the signal the call's fetches were given
SignalFires ==
  /\ retry.pc \in {"fetch", "sleep"}
  /\ ~retry.aborted
  /\ retry' = [retry EXCEPT !.aborted = TRUE]
  /\ UNCHANGED <<clock, nextJob, kv, doc, creating, sweep, writer, call, response>>

\* fetch settles: with an aborted signal it rejects with the AbortError, be it
\* in flight or just issued, and without one it is answered or fails
FetchSettles(resp) ==
  /\ retry.pc = "fetch"
  /\ retry.aborted <=> resp = AbortError
  /\ retry' = Answered(retry, resp)
  /\ UNCHANGED <<clock, nextJob, kv, doc, creating, sweep, writer, call, response>>

\* the sleep ends (lines 39-40) and the next fetch is issued
SleepEnds ==
  /\ retry.pc = "sleep"
  /\ retry' = [retry EXCEPT !.pc = "fetch", !.attempt = retry.attempt + 1]
  /\ UNCHANGED <<clock, nextJob, kv, doc, creating, sweep, writer, call, response>>

\* no pure function was called
NotCalled == [fn |-> "none", pc |-> "none"]
\* no POST was answered
NoResponse == [status |-> 0]

Init ==
  /\ clock = 0
  /\ nextJob = 1
  /\ kv = [k \in {} |-> NoJob]
  /\ doc = [k \in {} |-> NoJob]
  /\ creating = [k \in {} |-> NoJob]
  /\ sweep = [s \in SweepIds |-> IdleSweep]
  /\ writer = [j \in JobIds |-> [save |-> 0, itinerary |-> 0]]
  /\ retry = NoCall
  /\ call = NotCalled
  /\ response = NoResponse

\* time passes
Tick ==
  /\ clock < MaxTicks * TickMs
  /\ clock' = clock + TickMs
  /\ UNCHANGED <<nextJob, kv, doc, creating, sweep, writer, retry, call, response>>

\* lines 19-26: the record is stored under a fresh id, then the document
\* creation and a sweep are started and left running
Enqueue(destination, durationDays) ==
  /\ nextJob <= MaxJobs
  /\ \E s \in SweepIds : Free(s)
  /\ LET jobId == nextJob
         createdAt == clock
     IN /\ kv' = KvPut(kv, jobId, [destination |-> destination, durationDays |-> durationDays,
                                   status |-> "pending", createdAt |-> createdAt])
        /\ creating' = KvPut(creating, jobId, [destination |-> destination,
                                               durationDays |-> durationDays,
                                               createdAt |-> createdAt])
        /\ sweep' = [sweep EXCEPT ![FreeSlot] = [IdleSweep EXCEPT !.pc = "list"]]
        /\ nextJob' = nextJob + 1
  /\ UNCHANGED <<clock, doc, writer, retry, call>>

\* fetch, POST with a well-formed body
Submit(destination, durationDays) ==
  /\ Enqueue(destination, durationDays)
  /\ UNCHANGED response

\* scheduled: the cron trigger starts a sweep
Scheduled ==
  /\ \E s \in SweepIds : Free(s)
  /\ sweep' = [sweep EXCEPT ![FreeSlot] = [IdleSweep EXCEPT !.pc = "list"]]
  /\ UNCHANGED <<clock, nextJob, kv, doc, creating, writer, retry, call, response>>

\* createItineraryDoc: the PATCH lands and replaces the whole document
CreateDocOk(j) ==
  /\ j \in DOMAIN creating
  /\ doc' = Overwrite(doc, j, InitialDoc(creating[j]))
  /\ creating' = KvDelete(creating, j)
  /\ writer' = [writer EXCEPT ![j] = [save |-> 0, itinerary |-> 0]]
  /\ UNCHANGED <<clock, nextJob, kv, sweep, retry, call, response>>

\* createItineraryDoc throws (token or PATCH not ok); nobody retries it
CreateDocFail(j) ==
  /\ j \in DOMAIN creating
  /\ creating' = KvDelete(creating, j)
  /\ UNCHANGED <<clock, nextJob, kv, doc, sweep, writer, retry, call, response>>

\* ------------------------------------------------ processPendingJobs
Self(s, rec) == [sweep EXCEPT ![s] = rec]

\* `continue` / the end of the loop body: the next key, or the sweep returns
Continue(s) ==
  LET rest == Tail(sweep[s].keys)
  IN IF rest = <<>> THEN IdleSweep
     ELSE [IdleSweep EXCEPT !.pc = "get", !.keys = rest, !.now = sweep[s].now]

\* lines 116-119: the lock, up to the put that stores it
Lock(s, job) ==
  [sweep[s] EXCEPT !.pc = "lock_put", !.jobId = Head(sweep[s].keys),
                   !.job = With([job EXCEPT !.status = "in-progress"], "lockedAt", clock)]

\* the catch block up to its saveItinerary call (lines 150-165)
Catch(s, message) ==
  [sweep[s] EXCEPT !.pc = "save_failed", !.message = message, !.nowTs = clock,
                   !.itinerary = JsonNull]

\* JOBS_KV.list() answers: the keys in some order, and `now` is read
List(s) ==
  /\ sweep[s].pc = "list"
  /\ \E keys \in Orders(DOMAIN kv) :
       sweep' = Self(s, IF keys = <<>> THEN IdleSweep
                        ELSE [sweep[s] EXCEPT !.pc = "get", !.keys = keys, !.now = clock])
  /\ UNCHANGED <<clock, nextJob, kv, doc, creating, writer, retry, call, response>>

\* JOBS_KV.get(jobId) answers (lines 104-119, up to the next put)
Get(s) ==
  /\ sweep[s].pc = "get"
  /\ LET jobId == Head(sweep[s].keys)
     IN IF jobId \notin DOMAIN kv
          THEN sweep' = Self(s, Continue(s))
          ELSE LET job == kv[jobId]
               IN IF IsStale(job, sweep[s].now)
                    THEN sweep' = Self(s, [sweep[s] EXCEPT
                                             !.pc = "reset_put", !.jobId = jobId,
                                             !.job = Without([job EXCEPT !.status = "pending"],
                                                             "error")])
                  ELSE IF job.status # "pending"
                    THEN sweep' = Self(s, Continue(s))
                  ELSE sweep' = Self(s, Lock(s, job))
  /\ UNCHANGED <<clock, nextJob, kv, doc, creating, writer, retry, call, response>>

\* the put of the stale reset lands (line 112); the job is pending now, so
\* the sweep goes on to lock it
ResetPut(s) ==
  /\ sweep[s].pc = "reset_put"
  /\ kv' = KvPut(kv, sweep[s].jobId, sweep[s].job)
  /\ sweep' = Self(s, Lock(s, sweep[s].job))
  /\ UNCHANGED <<clock, nextJob, doc, creating, writer, retry, call, response>>

\* the put of the lock lands (line 119); generateItinerary is called
LockPut(s) ==
  /\ sweep[s].pc = "lock_put"
  /\ kv' = KvPut(kv, sweep[s].jobId, sweep[s].job)
  /\ sweep' = Self(s, [sweep[s] EXCEPT !.pc = "generate"])
  /\ UNCHANGED <<clock, nextJob, doc, creating, writer, retry, call, response>>

\* a put outside the try block rejects (lines 112, 119, 174): the error
\* leaves processPendingJobs
PutThrows(s) ==
  /\ sweep[s].pc \in {"reset_put", "lock_put", "fail_put"}
  /\ sweep' = Self(s, RejectedSweep)
  /\ UNCHANGED <<clock, nextJob, kv, doc, creating, writer, retry, call, response>>

\* generateItinerary returns a parsed value: it is validated, and on success
\* saveItinerary is called with the completed state (lines 123-145)
GenerateReturns(s, raw) ==
  /\ sweep[s].pc = "generate"
  /\ LET parsed == SchemaParse(raw)
     IN sweep' = Self(s, IF parsed.ok
                           THEN [sweep[s] EXCEPT !.pc = "save_completed",
                                                 !.itinerary = parsed.value,
                                                 !.nowTs = clock]
                           ELSE Catch(s, parsed.message))
  /\ UNCHANGED <<clock, nextJob, kv, doc, creating, writer, retry, call, response>>

\* a generation error that nothing handles: the loop goes on to the next key
\* and the record keeps its lock
GenerateThrowsUnhandled(s, message) ==
  /\ sweep[s].pc = "generate"
  /\ sweep' = Self(s, Continue(s))
  /\ UNCHANGED <<clock, nextJob, kv, doc, creating, writer, retry, call, response>>

\* generateItinerary throws (retries exhausted, HTTP error, abort, bad JSON)
GenerateThrows(s, message) ==
  /\ sweep[s].pc = "generate"
  /\ sweep' = Self(s, Catch(s, message))
  /\ UNCHANGED <<clock, nextJob, kv, doc, creating, writer, retry, call, response>>

\* the completed save lands (lines 139-145); JOBS_KV.delete is called
SaveCompletedOk(s) ==
  /\ sweep[s].pc = "save_completed"
  /\ doc' = SaveItinerary(doc, sweep[s].jobId,
                          CompletedArgs(sweep[s].itinerary, sweep[s].nowTs))
  /\ writer' = [writer EXCEPT ![sweep[s].jobId] = [save |-> s, itinerary |-> s]]
  /\ sweep' = Self(s, [sweep[s] EXCEPT !.pc = "delete"])
  /\ UNCHANGED <<clock, nextJob, kv, creating, retry, call, response>>

\* a completed save whose error is swallowed: the delete follows all the same
SaveCompletedSwallowed(s) ==
  /\ sweep[s].pc = "save_completed"
  /\ sweep' = Self(s, [sweep[s] EXCEPT !.pc = "delete"])
  /\ UNCHANGED <<clock, nextJob, kv, doc, creating, writer, retry, call, response>>

\* the completed save throws: the catch block runs
SaveCompletedThrows(s) ==
  /\ sweep[s].pc = "save_completed"
  /\ sweep' = Self(s, Catch(s, SaveErrorText))
  /\ UNCHANGED <<clock, nextJob, kv, doc, creating, writer, retry, call, response>>

\* the record is deleted (line 148); the loop goes on
DeleteOk(s) ==
  /\ sweep[s].pc = "delete"
  /\ kv' = KvDelete(kv, sweep[s].jobId)
  /\ sweep' = Self(s, Continue(s))
  /\ UNCHANGED <<clock, nextJob, doc, creating, writer, retry, call, response>>

\* the delete throws inside the try block: the catch block runs
DeleteThrows(s) ==
  /\ sweep[s].pc = "delete"
  /\ sweep' = Self(s, Catch(s, KvErrorText))
  /\ UNCHANGED <<clock, nextJob, kv, doc, creating, writer, retry, call, response>>

\* a catch block that records the message and leaves the status as it is
MarkFailedKeepsStatus(s, message) ==
  [sweep[s] EXCEPT !.pc = "fail_put", !.message = message,
                   !.job = With(sweep[s].job, "error", message)]

\* lines 171-174, up to the put: the record is marked failed
MarkFailed(s, message) ==
  [sweep[s] EXCEPT !.pc = "fail_put", !.message = message,
                   !.job = With([sweep[s].job EXCEPT !.status = "failed"], "error", message)]

\* the failed save lands (lines 160-165)
SaveFailedOk(s) ==
  /\ sweep[s].pc = "save_failed"
  /\ doc' = SaveItinerary(doc, sweep[s].jobId, FailedArgs(sweep[s].message, sweep[s].nowTs))
  /\ writer' = [writer EXCEPT ![sweep[s].jobId].save = s]
  /\ sweep' = Self(s, MarkFailed(s, sweep[s].message))
  /\ UNCHANGED <<clock, nextJob, kv, creating, retry, call, response>>

\* the failed save throws: the note is appended (lines 166-169)
SaveFailedThrows(s) ==
  /\ sweep[s].pc = "save_failed"
  /\ sweep' = Self(s, MarkFailed(s, sweep[s].message \o " | persistError: " \o SaveErrorText))
  /\ UNCHANGED <<clock, nextJob, kv, doc, creating, writer, retry, call, response>>

\* the put of the failed record lands (line 174); the loop goes on
FailPut(s) ==
  /\ sweep[s].pc = "fail_put"
  /\ kv' = KvPut(kv, sweep[s].jobId, sweep[s].job)
  /\ sweep' = Self(s, Continue(s))
  /\ UNCHANGED <<clock, nextJob, doc, creating, writer, retry, call, response>>

Next ==
  \/ Tick
  \/ \E d \in Destinations, n \in Durations : Submit(d, n)
  \/ Scheduled
  \/ \E j \in JobIds : CreateDocOk(j)
  \/ \E j \in JobIds : CreateDocFail(j)
  \/ \E s \in SweepIds : List(s)
  \/ \E s \in SweepIds : Get(s)
  \/ \E s \in SweepIds : ResetPut(s)
  \/ \E s \in SweepIds : LockPut(s)
  \/ \E s \in SweepIds : PutThrows(s)
  \/ \E s \in SweepIds, raw \in Payloads : GenerateReturns(s, raw)
  \/ \E s \in SweepIds, m \in GenErrors : GenerateThrows(s, m)
  \/ \E s \in SweepIds : SaveCompletedOk(s)
  \/ \E s \in SweepIds : SaveCompletedThrows(s)
  \/ \E s \in SweepIds : DeleteOk(s)
  \/ \E s \in SweepIds : DeleteThrows(s)
  \/ \E s \in SweepIds : SaveFailedOk(s)
  \/ \E s \in SweepIds : SaveFailedThrows(s)
  \/ \E s \in SweepIds : FailPut(s)

Spec == Init /\ [][Next]_vars

\* a single fetchWithRetry call, for every configured retry count
RetryInit ==
  /\ clock = 0
  /\ nextJob = 1
  /\ kv = [k \in {} |-> NoJob]
  /\ doc = [k \in {} |-> NoJob]
  /\ creating = [k \in {} |-> NoJob]
  /\ sweep = [s \in SweepIds |-> IdleSweep]
  /\ writer = [j \in JobIds |-> [save |-> 0, itinerary |-> 0]]
  /\ retry \in {Call(n) : n \in 0..MaxRetries}
  /\ call = NotCalled
  /\ response = NoResponse

RetryNext ==
  \/ \E resp \in Responses : FetchSettles(resp)
  \/ SleepEnds
  \/ SignalFires

RetrySpec == RetryInit /\ [][RetryNext]_vars

\* ------------------------------ one call of the validation step (line 135)
\* the longest list of day-plans that is validated
MaxDays == 2

ActivityNoLocation == Obj([time |-> Str("09:00"), description |-> Str("Senso-ji")])
ActivityLocationNumber ==
  Obj([time |-> Str("09:00"), description |-> Str("Senso-ji"), location |-> Num(7)])

\* what the LLM may put where the schema wants an activity, a list of
\* activities, a day number, a theme
ActivityValues == {ActivityA, ActivityNoLocation, ActivityLocationNumber, Str("n/a")}
ActivitiesValues ==
  {Arr(<<>>), Arr(<<ActivityA, ActivityNoLocation>>), Str("none")}
    \cup {Arr(<<a>>) : a \in ActivityValues}
DayValues == {Num(0), Num(1), Frac(1), Str("1")}
ThemeValues == {Str("Old town"), Num(3)}

\* objects with any of the keys day, theme, activities, and a value that is
\* no object
DayPlanValues ==
  {Str("day 1")}
    \cup {Obj(f) : f \in UNION {{g \in [K -> DayValues \cup ThemeValues \cup ActivitiesValues] :
                                   /\ "day" \in K => g["day"] \in DayValues
                                   /\ "theme" \in K => g["theme"] \in ThemeValues
                                   /\ "activities" \in K => g["activities"] \in ActivitiesValues} :
                                K \in SUBSET {"day", "theme", "activities"}}}

\* the values generateItinerary may return (whatever JSON.parse yields)
ValidationInputs ==
  {JsonNull, Str("Sorry, I cannot help."), Obj([day |-> Num(1)]), PayloadValid}
    \cup {Arr(days) : days \in UNION {[1..n -> DayPlanValues] : n \in 0..MaxDays}}

\* ItinerarySchema.parse(rawItinerary) is about to be called on input
Parsing(input) == [fn |-> "parse", pc |-> "called", input |-> input, result |-> NoJob]

\* ItinerarySchema.parse returns or throws; a ZodError's message is the one
\* the catch block builds (lines 153-155)
Validate ==
  /\ call.fn = "parse"
  /\ call.pc = "called"
  /\ call' = [call EXCEPT !.pc = "done", !.result = SchemaParse(call.input)]
  /\ UNCHANGED <<clock, nextJob, kv, doc, creating, sweep, writer, retry, response>>

ValidateInit ==
  /\ clock = 0
  /\ nextJob = 1
  /\ kv = [k \in {} |-> NoJob]
  /\ doc = [k \in {} |-> NoJob]
  /\ creating = [k \in {} |-> NoJob]
  /\ sweep = [s \in SweepIds |-> IdleSweep]
  /\ writer = [j \in JobIds |-> [save |-> 0, itinerary |-> 0]]
  /\ retry = NoCall
  /\ call \in {Parsing(x) : x \in ValidationInputs}
  /\ response = NoResponse

ValidateNext == Validate

ValidateSpec == ValidateInit /\ [][ValidateNext]_vars

\* ------------------------- one call of extractFirstJsonArray (part_001 47-59)
\* the longest text that is scanned
MaxLen == 5

\* the characters that matter to the scan: the two brackets and any other
Chars == {"[", "]", "x"}

RECURSIVE Texts(_)
\* the texts of at most n characters
Texts(n) ==
  IF n = 0 THEN {""}
  ELSE LET shorter == Texts(n - 1)
       IN shorter \cup {s \o c : s \in shorter, c \in Chars}

\* str[i], with JavaScript's indices 0 .. length - 1
CharAt(str, i) == SubSeq(str, i + 1, i + 1)

\* str.slice(a, b) for 0 <= a <= b <= str.length
Slice(str, a, b) == SubSeq(str, a + 1, b)

\* a search that finds the last occurrence instead of the first
LastIndexOf(str, c) ==
  IF \E i \in 0..(Len(str) - 1) : CharAt(str, i) = c
    THEN CHOOSE i \in 0..(Len(str) - 1) :
           CharAt(str, i) = c /\ \A k \in (i + 1)..(Len(str) - 1) : CharAt(str, k) # c
    ELSE -1

\* str.indexOf(c) for a single character c
IndexOf(str, c) ==
  IF \E i \in 0..(Len(str) - 1) : CharAt(str, i) = c
    THEN CHOOSE i \in 0..(Len(str) - 1) :
           CharAt(str, i) = c /\ \A k \in 0..(i - 1) : CharAt(str, k) # c
    ELSE -1

RECURSIVE MatchFrom(_, _, _, _)
\* the for loop of lines 50-57, from index i on with the depth reached so far
MatchFrom(str, start, i, depth) ==
  IF i >= Len(str) THEN [ok |-> FALSE, message |-> "No matching ] found for JSON array"]
  ELSE IF CharAt(str, i) = "[" THEN MatchFrom(str, start, i + 1, depth + 1)
  ELSE IF CharAt(str, i) = "]"
    THEN IF depth - 1 = 0 THEN [ok |-> TRUE, value |-> Slice(str, start, i + 1)]
         ELSE MatchFrom(str, start, i + 1, depth - 1)
  ELSE MatchFrom(str, start, i + 1, depth)

\* extractFirstJsonArray(str): the text it returns, or the Error it throws
ExtractFirstJsonArray(str) ==
  LET start == IndexOf(str, "[")
  IN IF start = -1 THEN [ok |-> FALSE, message |-> "No JSON array start found"]
     ELSE MatchFrom(str, start, start, 0)

\* extractFirstJsonArray(input) is about to be called
Extracting(input) == [fn |-> "extract", pc |-> "called", input |-> input, result |-> NoJob]

\* the call returns or throws
Extract ==
  /\ call.fn = "extract"
  /\ call.pc = "called"
  /\ call' = [call EXCEPT !.pc = "done", !.result = ExtractFirstJsonArray(call.input)]
  /\ UNCHANGED <<clock, nextJob, kv, doc, creating, sweep, writer, retry, response>>

ExtractInit ==
  /\ clock = 0
  /\ nextJob = 1
  /\ kv = [k \in {} |-> NoJob]
  /\ doc = [k \in {} |-> NoJob]
  /\ creating = [k \in {} |-> NoJob]
  /\ sweep = [s \in SweepIds |-> IdleSweep]
  /\ writer = [j \in JobIds |-> [save |-> 0, itinerary |-> 0]]
  /\ retry = NoCall
  /\ call \in {Extracting(str) : str \in Texts(MaxLen)}
  /\ response = NoResponse

ExtractNext == Extract

ExtractSpec == ExtractInit /\ [][ExtractNext]_vars

\* ------------------------------------ the POST branch of fetch (lines 8-31)
\* a body that is no JSON text: request.json() rejects
Malformed == [t |-> "malformed"]

\* what request.json() is called on: no JSON, null, an array, and objects
\* with well-typed, ill-typed and missing fields
Bodies ==
  {Malformed, JsonNull, Arr(<<>>),
   Obj([destination |-> Str("Tokyo, Japan"), durationDays |-> Num(5)]),
   Obj([destination |-> Num(7), durationDays |-> Num(5)]),
   Obj([destination |-> Str("Tokyo, Japan"), durationDays |-> Str("5")]),
   Obj([destination |-> Str("Tokyo, Japan")])}

\* payload[f] as the destructuring of line 15 reads it from a payload that
\* is not null
Property(payload, f) ==
  IF payload.t = "object" /\ f \in DOMAIN payload.v THEN payload.v[f] ELSE Undefined

\* typeof x, for the comparisons with 'string' and 'number' of line 16
TypeOf(x) == x.t

\* new Response(text, {status})
Response(body, status, text) == [body |-> body, status |-> status, text |-> text]

\* an exception left the handler: the runtime answers with status 500
Uncaught(body, text) == Response(body, 500, text)

\* fetch, POST: the whole handler for one request
Post(body) ==
  IF body = Malformed
    THEN /\ response' = Response(body, 400, "Invalid JSON")
         /\ UNCHANGED <<clock, nextJob, kv, doc, creating, sweep, writer, retry, call>>
  ELSE IF body = JsonNull
    \* line 15 destructures null: TypeError
    THEN /\ response' = Uncaught(body, "TypeError")
         /\ UNCHANGED <<clock, nextJob, kv, doc, creating, sweep, writer, retry, call>>
  ELSE IF \/ TypeOf(Property(body, "destination")) # "string"
          \/ TypeOf(Property(body, "durationDays")) # "number"
    THEN /\ response' = Response(body, 400, "Bad Request")
         /\ UNCHANGED <<clock, nextJob, kv, doc, creating, sweep, writer, retry, call>>
  ELSE /\ Enqueue(body.v.destination.v, body.v.durationDays.v)
       /\ response' = [body |-> body, status |-> 202, jobId |-> nextJob]

\* fetch, POST with a well-typed body, and the put of line 21 rejects
PostPutThrows(body) ==
  /\ body.t = "object"
  /\ TypeOf(Property(body, "destination")) = "string"
  /\ TypeOf(Property(body, "durationDays")) = "number"
  /\ response' = Uncaught(body, KvErrorText)
  /\ UNCHANGED <<clock, nextJob, kv, doc, creating, sweep, writer, retry, call>>

\* the submission handler, the document creations it starts and the first
\* step of the sweeps it starts
SubmitNext ==
  \/ Tick
  \/ \E body \in Bodies : Post(body)
  \/ \E body \in Bodies : PostPutThrows(body)
  \/ \E j \in JobIds : CreateDocOk(j)
  \/ \E j \in JobIds : CreateDocFail(j)
  \/ \E s \in SweepIds : List(s)

SubmitSpec == Init /\ [][SubmitNext]_vars

\* ------------------------------ one sweep over a queue store it finds filled
\* the records the sweep may find
MaxRecords == 2

RecordIds == 1..MaxRecords

\* what a record is when the sweep starts: of a job submitted just now (its
\* document creation still in flight), pending, locked more than 600 s ago,
\* locked exactly 600 s ago, failed, or deleted after its job completed
RecordStates == {"new", "pending", "stale", "fresh", "failed", "completed"}

\* the sweep starts at this time
SweepStart == MaxTicks * TickMs

SubmittedArgs == [destination |-> "Tokyo, Japan", durationDays |-> 5, createdAt |-> 0]

\* the record of a job in state c (lines 21-24, 116-119, 171-174)
RecordOf(c) ==
  LET pending == With(SubmittedArgs, "status", "pending")
  IN CASE c = "stale"  -> With([pending EXCEPT !.status = "in-progress"], "lockedAt", 0)
       [] c = "fresh"  -> With([pending EXCEPT !.status = "in-progress"], "lockedAt",
                               SweepStart - StaleLockMs)
       [] c = "failed" -> With(With([pending EXCEPT !.status = "failed"], "lockedAt", 0),
                               "error", KvErrorText)
       [] OTHER        -> pending

\* the document of a job in state c, written by createItineraryDoc and then
\* by the save of the sweep that ended the job
DocumentOf(c) ==
  LET created == Overwrite([k \in {} |-> NoJob], 1, InitialDoc(SubmittedArgs))
  IN CASE c = "failed"    -> SaveItinerary(created, 1, FailedArgs(KvErrorText, 0))[1]
       [] c = "completed" -> SaveItinerary(created, 1,
                                           CompletedArgs(ItineraryOutput(PayloadValid), 0))[1]
       [] OTHER           -> created[1]

\* the stores as one sweep finds them, and that sweep about to enumerate
SweepInit ==
  /\ clock = SweepStart
  /\ nextJob = MaxRecords + 1
  /\ \E c \in [RecordIds -> RecordStates] :
       /\ kv = [j \in {i \in RecordIds : c[i] # "completed"} |-> RecordOf(c[j])]
       /\ doc = [j \in {i \in RecordIds : c[i] # "new"} |-> DocumentOf(c[j])]
       /\ creating = [j \in {i \in RecordIds : c[i] = "new"} |-> SubmittedArgs]
  /\ sweep = [s \in SweepIds |-> IF s = 1 THEN [IdleSweep EXCEPT !.pc = "list"] ELSE IdleSweep]
  /\ writer = [j \in RecordIds |-> [save |-> 0, itinerary |-> 0]]
  /\ retry = NoCall
  /\ call = NotCalled
  /\ response = NoResponse

\* the sweep's steps and the pending document creations; no other sweep starts
SweepNext ==
  \/ \E j \in RecordIds : CreateDocOk(j)
  \/ \E j \in RecordIds : CreateDocFail(j)
  \/ \E s \in SweepIds : List(s)
  \/ \E s \in SweepIds : Get(s)
  \/ \E s \in SweepIds : ResetPut(s)
  \/ \E s \in SweepIds : LockPut(s)
  \/ \E s \in SweepIds : PutThrows(s)
  \/ \E s \in SweepIds, raw \in Payloads : GenerateReturns(s, raw)
  \/ \E s \in SweepIds, m \in GenErrors : GenerateThrows(s, m)
  \/ \E s \in SweepIds : SaveCompletedOk(s)
  \/ \E s \in SweepIds : SaveCompletedThrows(s)
  \/ \E s \in SweepIds : DeleteOk(s)
  \/ \E s \in SweepIds : DeleteThrows(s)
  \/ \E s \in SweepIds : SaveFailedOk(s)
  \/ \E s \in SweepIds : SaveFailedThrows(s)
  \/ \E s \in SweepIds : FailPut(s)

SweepSpec == SweepInit /\ [][SweepNext]_vars

\* ================================================================ claims
Submitted == 1..(nextJob - 1)

DocStatus(j) == IF j \in DOMAIN doc THEN doc[j].status.stringValue ELSE "absent"
Completed(j) == DocStatus(j) = "completed"
Failed(j) == DocStatus(j) = "failed"
Terminal(j) == Completed(j) \/ Failed(j)

\* a field the status query would report as null
FieldNull(d, f) == f \notin DOMAIN d \/ d[f] = NullValue

\* sweep s is between the read of j's record and the end of its loop body
Processing(s, j) == sweep[s].jobId = j

\* nothing is left that could still write j's document: its creation call is
\* over, no sweep is processing it, and its record is gone or failed, which
\* every later sweep skips
Dormant(j) ==
  /\ j \notin DOMAIN creating
  /\ \A s \in SweepIds : ~Processing(s, j)
  /\ j \in DOMAIN kv => kv[j].status = "failed"

\* C1: every accepted submission's document eventually has status completed
\* or failed, whatever sweeps and generation calls do and also when document
\* writes fail. Stated on the states from which no step changes the document
\* any more: there the document must already be terminal.
C1_EventuallyTerminal == \A j \in Submitted : Dormant(j) => Terminal(j)

\* C2: a completed document has an itinerary and no error; a failed document
\* has an error and no itinerary.
C2_TerminalShape ==
  \A j \in DOMAIN doc :
    /\ Completed(j) => ~FieldNull(doc[j], "itinerary") /\ FieldNull(doc[j], "error")
    /\ Failed(j) => ~FieldNull(doc[j], "error") /\ FieldNull(doc[j], "itinerary")

\* C3: after two concurrent sweeps have both processed a job, the document is
\* the output of one of them: its itinerary was written by the sweep that wrote
\* its status, error and timestamps (or by none). While no lock can have gone
\* stale (clock = 0), two sweeps that wrote the document both locked the record
\* while it was pending, so they overlapped.
C3_OneAttemptsOutput ==
  \A j \in DOMAIN doc :
    (clock = 0 /\ \A s \in SweepIds : ~Processing(s, j))
      => writer[j].itinerary \in {0, writer[j].save}

\* C4: a document is written to a terminal status once, and no later write
\* changes a terminal document.
C4_TerminalWrittenOnce == [][\A j \in DOMAIN doc : Terminal(j) => doc'[j] = doc[j]]_vars

\* C5: the itinerary of a completed document was accepted by the itinerary
\* schema, and a sweep issues the completed write only with an accepted value.
C5_CompletedIsValidated ==
  /\ \A j \in DOMAIN doc :
       Completed(j) =>
         /\ "itinerary" \in DOMAIN doc[j]
         /\ DOMAIN doc[j].itinerary = {"stringValue"}
         /\ ItinerarySchemaAccepts(doc[j].itinerary.stringValue.json)
  /\ \A s \in SweepIds :
       sweep[s].pc = "save_completed" => ItinerarySchemaAccepts(sweep[s].itinerary)

\* a job completed, and its record was cleaned up
C5_Witness == \E j \in DOMAIN doc : Completed(j) /\ j \notin DOMAIN kv

\* the reaction of the sweep that reads a record it takes for stale: it
\* resets the record to pending without error, stores that, and locks it
ResetsOnRead(s, j) ==
  /\ sweep'[s].pc = "reset_put"
  /\ sweep'[s].jobId = j
  /\ sweep'[s].job.status = "pending"
  /\ "error" \notin DOMAIN sweep'[s].job

ResetLands(s) ==
  (sweep[s].pc = "reset_put" /\ sweep'[s] # sweep[s] /\ sweep'[s].pc # "rejected")
    => /\ kv'[sweep[s].jobId].status = "pending"
       /\ "error" \notin DOMAIN kv'[sweep[s].jobId]
       /\ sweep'[s].pc = "lock_put"
       /\ sweep'[s].job.status = "in-progress"

C7_FailedIsFinal ==
  [][\A j \in DOMAIN kv :
       kv[j].status = "failed" =>
         /\ j \in DOMAIN kv' /\ kv'[j] = kv[j]
         /\ \A s \in SweepIds :
              (sweep[s].pc # "generate" /\ sweep'[s].pc = "generate") => sweep'[s].jobId # j]_vars

\* C8: while no sweep is processing a job, its record exists exactly if its
\* document is not completed.
C8_RecordIffNotCompleted ==
  \A j \in Submitted :
    (\A s \in SweepIds : ~Processing(s, j)) => ((j \in DOMAIN kv) <=> ~Completed(j))

\* C9: no error leaves a sweep.
C9_NothingPropagates == \A s \in SweepIds : sweep[s].pc # "rejected"

\* a failure fetchWithRetry is meant to retry
RetryableFailure(resp) ==
  \/ resp.kind = "network"
  \/ resp.kind = "http" /\ ~Ok(resp) /\ Retryable(resp)

AllRetryable(h) == \A i \in 1..Len(h) : RetryableFailure(h[i])

\* C10: with retry count n, k <= n retryable failures and then a 200 make the
\* call return after k delays and k + 1 requests; while at most n retryable
\* failures came the call goes on; n + 1 of them make it throw after n delays
\* and n + 1 requests; no call issues more than n + 1 requests.
C10_RetryCounts ==
  LET h == retry.history
      n == retry.retries
  IN /\ Len(h) <= n + 1
     /\ (h # <<>> /\ AllRetryable(SubSeq(h, 1, Len(h) - 1)) /\ h[Len(h)] = Http(200))
          => retry.pc = "returned" /\ Len(retry.delays) = Len(h) - 1
     /\ (AllRetryable(h) /\ Len(h) <= n /\ retry.pc # "none")
          => retry.pc \in {"fetch", "sleep"} /\ Len(retry.delays) = Len(h)
     /\ (AllRetryable(h) /\ Len(h) = n + 1)
          => retry.pc = "threw" /\ Len(retry.delays) = n

\* 503, 503, 200: returned after two delays
C10_Witness ==
  /\ retry.pc = "returned"
  /\ retry.history = <<Http(503), Http(503), Http(200)>>
  /\ retry.delays = <<BaseDelay, BaseDelay * Factor>>

\* an HTTP answer fetchWithRetry is not meant to retry: 4xx other than 429
NonRetryable(resp) == resp.kind = "http" /\ ~Ok(resp) /\ ~Retryable(resp)

\* C11: when the first answer is a non-retryable HTTP status, the call has
\* thrown at once, for every retry count: one request, no delay, no retry.
C11_NonRetryableFailsAtOnce ==
  (retry.history # <<>> /\ NonRetryable(retry.history[1]))
    => /\ retry.pc = "threw"
       /\ Len(retry.history) = 1
       /\ retry.delays = <<>>

\* text sub occurs in text s
Contains(s, sub) ==
  \E i \in 1..(Len(s) - Len(sub) + 1) : SubSeq(s, i, i + Len(sub) - 1) = sub

StartsWith(s, prefix) == Len(s) >= Len(prefix) /\ SubSeq(s, 1, Len(prefix)) = prefix

\* what the schema is meant to accept
WellFormedActivity(a) ==
  /\ a.t = "object"
  /\ \A f \in {"time", "description", "location"} : f \in DOMAIN a.v /\ a.v[f].t = "string"

WellFormedDay(d) ==
  /\ d.t = "object"
  /\ {"day", "theme", "activities"} \subseteq DOMAIN d.v
  /\ IsInteger(d.v.day) /\ d.v.day.v >= 1
  /\ d.v.theme.t = "string"
  /\ d.v.activities.t = "array"
  /\ Len(d.v.activities.v) >= 1
  /\ \A k \in 1..Len(d.v.activities.v) : WellFormedActivity(d.v.activities.v[k])

WellFormedItinerary(x) ==
  /\ x.t = "array"
  /\ Len(x.v) >= 1
  /\ \A i \in 1..Len(x.v) : WellFormedDay(x.v[i])

\* day-plan d has the key f with a value of type t
Has(d, f, t) == d.t = "object" /\ f \in DOMAIN d.v /\ d.v[f].t = t

\* the message has a path before its first ": ", and so names something
NamesAPath(message) == ~StartsWith(message, "Validation error: : ")

\* C12: the validation step accepts exactly the well-formed itineraries, and
\* the message of a rejected value names the offending field in each of the
\* four cases: an empty day list, a day-plan with day = 0, a day-plan with no
\* activities, an activity without location.
C12_RejectionsNameField ==
  (call.fn = "parse" /\ call.pc = "done") =>
    LET x == call.input
        r == call.result
    IN /\ r.ok <=> WellFormedItinerary(x)
       /\ x = Arr(<<>>) => ~r.ok /\ NamesAPath(r.message)
       /\ x.t = "array" =>
            \A i \in 1..Len(x.v) :
              LET d == x.v[i]
                  at == IdxStr(i - 1)
              IN /\ (Has(d, "day", "number") /\ d.v.day = Num(0))
                      => ~r.ok /\ Contains(r.message, " " \o at \o ".day: ")
                 /\ (Has(d, "activities", "array") /\ d.v.activities.v = <<>>)
                      => ~r.ok /\ Contains(r.message, " " \o at \o ".activities: ")
                 /\ Has(d, "activities", "array") =>
                      \A k \in 1..Len(d.v.activities.v) :
                        (d.v.activities.v[k].t = "object"
                           /\ "location" \notin DOMAIN d.v.activities.v[k].v)
                          => /\ ~r.ok
                             /\ Contains(r.message, " " \o at \o ".activities."
                                                      \o IdxStr(k - 1) \o ".location: ")

\* the positions (from 1) of character c in text s
Positions(s, c) == {i \in 1..Len(s) : SubSeq(s, i, i) = c}

\* the bracket nesting depth after position i, counted from position a on
DepthAfter(s, a, i) ==
  Cardinality(Positions(s, "[") \cap (a..i)) - Cardinality(Positions(s, "]") \cap (a..i))

Least(S) == CHOOSE i \in S : \A k \in S : i <= k

\* C13: the bracket-extraction parser returns exactly the text from the first
\* '[' to the first later position at which the nesting depth is back at zero,
\* and throws when there is no '[' or the depth never returns to zero.
C13_ExtractsFirstArray ==
  (call.fn = "extract" /\ call.pc = "done") =>
    LET s == call.input
        r == call.result
        opens == Positions(s, "[")
    IN IF opens = {} THEN ~r.ok
       ELSE LET a == Least(opens)
                closes == {i \in a..Len(s) : DepthAfter(s, a, i) = 0}
            IN IF closes = {} THEN ~r.ok
               ELSE /\ r.ok
                    /\ r.value = SubSeq(s, a, Least(closes))
                    /\ SubSeq(s, Least(closes), Least(closes)) = "]"

\* prose, the array, prose: the array text alone is returned
C13_Witness ==
  /\ call.fn = "extract" /\ call.pc = "done"
  /\ call.input = "x[x]x"
  /\ call.result = [ok |-> TRUE, value |-> "[x]"]

\* the body is a JSON object with a string destination and a number
\* durationDays
WellTyped(body) ==
  /\ body.t = "object"
  /\ "destination" \in DOMAIN body.v /\ body.v.destination.t = "string"
  /\ "durationDays" \in DOMAIN body.v /\ body.v.durationDays.t = "number"

\* C14: a POST whose body is malformed or ill-typed is answered with a 4xx
\* status and changes neither store; a POST answered with a job id found no
\* record and no document under that id, left a pending record under it, and
\* was answered while the document creation and the sweep it started were
\* still running.
C14_SubmissionContract ==
  [][response' # response =>
       /\ ~WellTyped(response'.body) =>
            /\ response'.status \in 400..499
            /\ kv' = kv /\ doc' = doc
       /\ response'.status = 202 =>
            LET jobId == response'.jobId
            IN /\ WellTyped(response'.body)
               /\ jobId \notin Submitted
               /\ jobId \notin DOMAIN kv /\ jobId \notin DOMAIN doc
               /\ jobId \in DOMAIN kv' /\ kv'[jobId].status = "pending"
               /\ jobId \in DOMAIN creating'
               /\ \E s \in SweepIds : Free(s) /\ sweep'[s].pc = "list"]_vars

\* C15: a document's completedAt is null while its status is processing, and
\* is a timestamp once its status is completed or failed.
C15_CompletedAtSet ==
  \A j \in DOMAIN doc :
    /\ DocStatus(j) = "processing" => FieldNull(doc[j], "completedAt")
    /\ Terminal(j) =>
         /\ "completedAt" \in DOMAIN doc[j]
         /\ DOMAIN doc[j].completedAt = {"timestampValue"}

\* C16: a record is removed only by a sweep that stands at its delete call;
\* a sweep reaches its delete call only by the step in which its completed
\* write lands, which leaves the document completed with that sweep's
\* itinerary; a sweep whose completed write fails goes to the failure path,
\* and no step of the failure path removes a record.
C16_DeleteAfterCompletedWrite ==
  [][/\ \A j \in DOMAIN kv :
          j \notin DOMAIN kv' =>
            \E s \in SweepIds :
              sweep[s].pc = "delete" /\ sweep[s].jobId = j /\ sweep'[s] # sweep[s]
     /\ \A s \in SweepIds :
          (sweep[s].pc # "delete" /\ sweep'[s].pc = "delete") =>
            LET j == sweep[s].jobId
            IN /\ sweep[s].pc = "save_completed"
               /\ sweep'[s].jobId = j
               /\ j \in DOMAIN doc'
               /\ doc'[j].status = StringValue("completed")
               /\ "itinerary" \in DOMAIN doc'[j]
               /\ doc'[j].itinerary = StringValue(Stringify(sweep[s].itinerary))
               /\ doc'[j].completedAt = TimestampValue(sweep[s].nowTs)
               /\ kv' = kv
     /\ \A s \in SweepIds :
          (sweep[s].pc = "save_completed" /\ sweep'[s] # sweep[s] /\ sweep'[s].pc # "delete")
            => sweep'[s].pc = "save_failed" /\ doc' = doc /\ kv' = kv
     /\ \A s \in SweepIds :
          (sweep[s].pc \in {"save_failed", "fail_put"} /\ sweep'[s] # sweep[s])
            => DOMAIN kv \subseteq DOMAIN kv']_vars

\* a sweep's completed write landed and the same sweep then deleted the record
C16_Witness ==
  \E j \in DOMAIN doc :
    /\ Completed(j)
    /\ writer[j].itinerary \in SweepIds
    /\ writer[j].save = writer[j].itinerary
    /\ j \notin DOMAIN kv
    /\ \A s \in SweepIds : sweep[s].pc = "idle"

\* the note the catch block appends when the failed write throws
PersistNote == " | persistError: " \o SaveErrorText

\* C17: a sweep whose generation call, validation or completed write fails
\* enters the failure path with the error's message. There it attempts the
\* failed write once; whether the write lands (the document is failed with the
\* message) or throws (the document is left alone and the note with the
\* store's error is appended to the message), its next call is the put of the
\* record with status failed and that message, and the put that lands stores
\* exactly that record.
C17_MarkedFailedEitherWay ==
  [][\A s \in SweepIds :
       LET j == sweep[s].jobId
           m == sweep[s].message
       IN /\ (sweep[s].pc \in {"generate", "save_completed"} /\ sweep'[s] # sweep[s])
               => \/ sweep[s].pc = "generate" /\ sweep'[s].pc = "save_completed"
                  \/ sweep[s].pc = "save_completed" /\ sweep'[s].pc = "delete"
                  \/ /\ sweep'[s].pc = "save_failed"
                     /\ sweep'[s].jobId = j
                     /\ sweep'[s].message # ""
                     /\ sweep'[s].job.status = "in-progress"
          /\ (sweep[s].pc = "save_failed" /\ sweep'[s] # sweep[s])
               => /\ sweep'[s].pc = "fail_put"
                  /\ sweep'[s].jobId = j
                  /\ sweep'[s].job.status = "failed"
                  /\ \/ /\ j \in DOMAIN doc'
                        /\ doc'[j].status = StringValue("failed")
                        /\ doc'[j].error = StringValue(m)
                        /\ sweep'[s].job.error = m
                     \/ /\ doc' = doc
                        /\ sweep'[s].job.error = m \o PersistNote
          /\ (sweep[s].pc = "fail_put" /\ sweep'[s] # sweep[s] /\ sweep'[s].pc # "rejected")
               => /\ j \in DOMAIN kv'
                  /\ kv'[j] = sweep[s].job
                  /\ kv'[j].status = "failed"
                  /\ kv'[j].error = m]_vars

\* the failed write failed, and the record is marked failed with the note
C17_Witness ==
  \E j \in DOMAIN kv :
    /\ kv[j].status = "failed"
    /\ Contains(kv[j].error, PersistNote)
    /\ ~Failed(j)
    /\ \A s \in SweepIds : sweep[s].pc = "idle"

\* the status of j's queue record; a submitted job without record had its
\* record deleted (the submission stores the record before anything else)
RecordStatus(j) ==
  IF j \in DOMAIN kv THEN kv[j].status
  ELSE IF j \in Submitted THEN "deleted" ELSE "none"

\* C18: a record's status changes only from pending to in-progress, from
\* in-progress to deleted or failed, and from in-progress to pending when the
\* lock is more than 600 s old (besides the submission that creates it).
C18_StateMachine ==
  [][\A j \in JobIds :
       LET from == RecordStatus(j)
           to == RecordStatus(j)'
       IN from # to =>
            \/ from = "none" /\ to = "pending"
            \/ from = "pending" /\ to = "in-progress"
            \/ from = "in-progress" /\ to \in {"deleted", "failed"}
            \/ /\ from = "in-progress" /\ to = "pending"
               /\ clock - kv[j].lockedAt > StaleLockMs]_vars

\* sweep s has called generateItinerary for j, or is past that call
Attempting(s, j) ==
  /\ sweep[s].jobId = j
  /\ sweep[s].pc \in {"generate", "save_completed", "delete", "save_failed", "fail_put"}

\* C19: when a sweep starts the generation call for a job, the job's initial
\* document is already written; and when the creation write lands, no sweep
\* has written the job's document or started a generation call for it.
C19_CreatedFirst ==
  [][\A j \in JobIds :
       /\ \A s \in SweepIds :
            (sweep[s].pc # "generate" /\ sweep'[s].pc = "generate" /\ sweep'[s].jobId = j)
              => j \in DOMAIN doc /\ j \notin DOMAIN creating
       /\ (j \in DOMAIN creating /\ j \notin DOMAIN creating' /\ doc' # doc)
            => /\ j \notin DOMAIN doc
               /\ \A s \in SweepIds : ~Attempting(s, j)]_vars

\* the message of the error an aborted generation call throws
AbortMessage == "LLM request aborted by timeout"

\* sweep s is in the failure path of a generation call that was aborted
Aborted(s) ==
  /\ sweep[s].pc \in {"save_failed", "fail_put"}
  /\ StartsWith(sweep[s].message, AbortMessage)

C23_AbortStopsRetries ==
  [][(retry.aborted /\ retry' # retry) =>
       /\ retry'.delays = retry.delays
       /\ retry.pc = "sleep" => retry'.pc = "fetch" /\ retry'.history = retry.history
       /\ retry.pc = "fetch" =>
            /\ retry'.pc = "threw"
            /\ retry'.error = AbortMessage
            /\ Len(retry'.history) = Len(retry.history) + 1
       /\ retry.pc \in {"fetch", "sleep"}]_vars

\* the signal fired after a retryable failure, with retries left: the call
\* threw the abort error
C23_Witness ==
  /\ retry.aborted
  /\ retry.pc = "threw"
  /\ retry.error = AbortMessage
  /\ retry.attempt < retry.retries
  /\ retry.history = <<Http(503), AbortError>>
  /\ retry.delays = <<BaseDelay>>

\* field f of j's document is after the step what it was before: absent, or
\* present with the same value
Kept(j, f) ==
  IF j \in DOMAIN doc /\ f \in DOMAIN doc[j]
    THEN f \in DOMAIN doc'[j] /\ doc'[j][f] = doc[j][f]
    ELSE f \notin DOMAIN doc'[j]

\* the step is a save of sweep s that lands on j's document
SaveLands(s, j) ==
  /\ sweep[s].pc \in {"save_completed", "save_failed"}
  /\ sweep[s].jobId = j
  /\ sweep'[s].pc \in {"delete", "fail_put"}
  /\ j \in DOMAIN doc'
  /\ j \notin DOMAIN doc \/ doc'[j] # doc[j]

\* C22: a save that lands leaves destination, durationDays and createdAt of
\* the document as they were, and the itinerary too when it gives none (the
\* failed save); it sets status, updatedAt, completedAt and error, and the
\* itinerary when it gives one; only a save or the creation changes a
\* document, and a document that has its destination, durationDays and
\* createdAt (the creation wrote them) keeps them in every step.
C22_SaveFrame ==
  [][\A j \in DOMAIN doc' :
       /\ \A s \in SweepIds :
            SaveLands(s, j) =>
              /\ Kept(j, "destination") /\ Kept(j, "durationDays") /\ Kept(j, "createdAt")
              /\ sweep[s].pc = "save_failed" => Kept(j, "itinerary")
              /\ sweep[s].pc = "save_completed" =>
                   doc'[j].itinerary = StringValue(Stringify(sweep[s].itinerary))
              /\ {"status", "updatedAt", "completedAt", "error"} \subseteq DOMAIN doc'[j]
              /\ doc'[j].updatedAt = TimestampValue(sweep[s].nowTs)
       /\ (j \notin DOMAIN doc \/ doc'[j] # doc[j]) =>
            \/ \E s \in SweepIds : SaveLands(s, j)
            \/ j \in DOMAIN creating /\ j \notin DOMAIN creating'
       /\ (j \in DOMAIN doc /\ "destination" \in DOMAIN doc[j]) =>
            /\ {"destination", "durationDays", "createdAt"} \subseteq DOMAIN doc[j]
            /\ Kept(j, "destination") /\ Kept(j, "durationDays") /\ Kept(j, "createdAt")]_vars

\* a created document went through a completed save and then a failed save:
\* it has the request's fields and still the itinerary
C22_Witness ==
  \E j \in DOMAIN doc :
    /\ Failed(j)
    /\ "destination" \in DOMAIN doc[j]
    /\ doc[j].destination = StringValue("Tokyo, Japan")
    /\ doc[j].durationDays = IntegerValue(5)
    /\ "itinerary" \in DOMAIN doc[j] /\ doc[j].itinerary # NullValue

\* the step in which sweep s returns
Returns(s) == sweep[s].pc \notin {"idle", "rejected"} /\ sweep'[s].pc = "idle"

\* C21: when a sweep that ran alone returns, no record is left pending or
\* in-progress with a lock that was stale when the sweep started (the sweep
\* changes no record but those it processes, so a record left eligible is one
\* that was eligible and skipped), and every job whose record is gone has a
\* completed document; this for every enumeration order.
C21_OnePassProcessesAll ==
  [][\A s \in SweepIds :
       Returns(s) =>
         \A j \in Submitted :
           /\ j \in DOMAIN kv' =>
                kv'[j].status # "pending" /\ ~IsStale(kv'[j], sweep[s].now)
           /\ j \notin DOMAIN kv' => DocStatus(j)' = "completed"]_vars

====
